---- MODULE Spec2Model ----
(***************************************************************************)
(* Peg solitaire (src/scripts.js): the Originator (board, selection, move  *)
(* rules), the ConcreteMemento and the Caretaker (undo history) and the UI *)
(* handlers that drive them.                                               *)
(*                                                                         *)
(* JavaScript objects live in three heaps, one per kind of object, each a  *)
(* sequence whose indices are the references (0 is null):                  *)
(*   boards  a 7x7 array of rows (the outer array with its row arrays),    *)
(*   pegs    a {r, c} object,                                              *)
(*   states  a {board, selectedPeg} object holding two references.         *)
(* An operation of the source is an operator from the machine record (the  *)
(* heaps and the fields of the objects) to the machine record after it,    *)
(* with the value it returns; an action commits one such operation.        *)
(* The numbers 0 and 1 of a cell are written "0" and "1", beside the       *)
(* string "-": TLC compares only values of one type.                       *)
(***************************************************************************)
EXTENDS Integers, Sequences, FiniteSets, TLC

VARIABLES
    boards,         \* heap of board arrays
    pegs,           \* heap of {r, c} objects
    states,         \* heap of {board, selectedPeg} objects
    initialLayout,  \* Originator.initialLayout: a reference to a board
    state,          \* Originator.state: a reference to a state object
    mementos,       \* Caretaker.mementos: ConcreteMemento objects, oldest first
    gameStarted,    \* UI.gameStarted
    held,           \* a memento a direct caller of save() keeps ([state |-> 0]: none)
    handle,         \* the reference a direct caller got from getState() (0: none)
    timer,          \* UI.timerInterval (set or not), the whole seconds since
                    \* UI.startTime, and the text of the timer element
    calls,          \* number of direct calls made so far
    last,           \* the last operation, what it returned, and (for a direct
                    \* call) the operation before it
    lastMove        \* the engine before the last committed move, and that move

vars == <<boards, pegs, states, initialLayout, state, mementos, gameStarted,
          held, handle, timer, calls, last, lastMove>>

\* ------------------------------------------------------------ constants

CELL_TYPES == [INVALID |-> "-", EMPTY |-> "0", PEG |-> "1"]

DIRECTIONS == << [dx |-> 0, dy |-> 2], [dx |-> 0, dy |-> -2],
                 [dx |-> 2, dy |-> 0], [dx |-> -2, dy |-> 0] >>

initialBoardLayout ==
    << <<"-", "-", "1", "1", "1", "-", "-">>,
       <<"-", "-", "1", "1", "1", "-", "-">>,
       <<"1", "1", "1", "1", "1", "1", "1">>,
       <<"1", "1", "1", "0", "1", "1", "1">>,
       <<"1", "1", "1", "1", "1", "1", "1">>,
       <<"-", "-", "1", "1", "1", "-", "-">>,
       <<"-", "-", "1", "1", "1", "-", "-">> >>

\* A JavaScript array literal as the 0-based array it denotes.
ArrayOf(lit) == [i \in 0..(Len(lit) - 1) |-> lit[i + 1]]
GridOf(lit) == [r \in 0..(Len(lit) - 1) |-> ArrayOf(lit[r + 1])]

\* Row and column indices of the 7x7 board.
Rows == 0..(Len(initialBoardLayout) - 1)
Cols == 0..(Len(initialBoardLayout[1]) - 1)
Pos == Rows \X Cols

UNDEFINED == "undefined"
TYPE_ERROR == "TypeError"
NULL == 0

\* ------------------------------------------------------------ the heaps

\* The machine record of the current state.
Machine ==
    [boards |-> boards, pegs |-> pegs, states |-> states,
     initialLayout |-> initialLayout, state |-> state, mementos |-> mementos,
     gameStarted |-> gameStarted, held |-> held, handle |-> handle,
     timer |-> timer]

\* A new array of rows holding `grid`: the machine after, and the reference.
AllocBoard(m, grid) ==
    [m |-> [m EXCEPT !.boards = Append(@, grid)], ref |-> Len(m.boards) + 1]

\* A new {r, c} object.
AllocPeg(m, r, c) ==
    [m |-> [m EXCEPT !.pegs = Append(@, [r |-> r, c |-> c])], ref |-> Len(m.pegs) + 1]

\* A new {board, selectedPeg} object.
AllocState(m, b, p) ==
    [m |-> [m EXCEPT !.states = Append(@, [board |-> b, selectedPeg |-> p])],
     ref |-> Len(m.states) + 1]

\* board[r][c] as JavaScript reads it: a TypeError when board[r] is undefined,
\* undefined when the row has no index c.
ReadCell(grid, r, c) ==
    IF r \notin DOMAIN grid THEN TYPE_ERROR
    ELSE IF c \notin DOMAIN grid[r] THEN UNDEFINED
    ELSE grid[r][c]

\* board[r]?.[c]: undefined instead of the TypeError.
ReadCellOptional(grid, r, c) ==
    IF r \notin DOMAIN grid THEN UNDEFINED ELSE ReadCell(grid, r, c)

\* row => [...row] over every row: the same cells (in new arrays, see AllocBoard).
CopyRows(grid) == [r \in DOMAIN grid |-> [c \in DOMAIN grid[r] |-> grid[r][c]]]

\* The board and the selection a state object holds, as values.
BoardOf(m, s) == m.boards[m.states[s].board]
SelOf(m, s) ==
    IF m.states[s].selectedPeg = NULL THEN <<>>
    ELSE <<m.pegs[m.states[s].selectedPeg].r, m.pegs[m.states[s].selectedPeg].c>>

\* ------------------------------------------------------------ JSON

\* JSON text as its sequence of tokens: punctuation ([k |-> "[", ...]), a string,
\* a number (its numeral) or null.
Punct(ch) == [k |-> ch, v |-> ch]
StrTok(x) == [k |-> "str", v |-> x]
NumTok(x) == [k |-> "num", v |-> x]
NullTok == [k |-> "null", v |-> "null"]

\* The token sequences of `parts`, separated by commas.
RECURSIVE JoinComma(_)
JoinComma(parts) ==
    IF Len(parts) = 0 THEN <<>>
    ELSE IF Len(parts) = 1 THEN parts[1]
    ELSE parts[1] \o <<Punct(",")>> \o JoinComma(Tail(parts))

\* JSON.stringify of a cell: the numbers 0 and 1 as numerals, '-' as a string.
StringifyCell(v) ==
    IF v \in {CELL_TYPES.EMPTY, CELL_TYPES.PEG} THEN <<NumTok(v)>> ELSE <<StrTok(v)>>

StringifyRow(row) ==
    <<Punct("[")>>
        \o JoinComma([i \in 1..Cardinality(DOMAIN row) |-> StringifyCell(row[i - 1])])
        \o <<Punct("]")>>

StringifyBoard(grid) ==
    <<Punct("[")>>
        \o JoinComma([i \in 1..Cardinality(DOMAIN grid) |-> StringifyRow(grid[i - 1])])
        \o <<Punct("]")>>

\* JSON.stringify of a selection: null, or {"r":..,"c":..}.
StringifyPeg(sel) ==
    IF sel = <<>> THEN <<NullTok>>
    ELSE <<Punct("{"), StrTok("r"), Punct(":"), NumTok(ToString(sel[1])), Punct(","),
           StrTok("c"), Punct(":"), NumTok(ToString(sel[2])), Punct("}")>>

\* JSON.stringify(state) of the state object s.
JSONStringify(m, s) ==
    <<Punct("{"), StrTok("board"), Punct(":")>> \o StringifyBoard(BoardOf(m, s))
        \o <<Punct(","), StrTok("selectedPeg"), Punct(":")>> \o StringifyPeg(SelOf(m, s))
        \o <<Punct("}")>>

\* JSON.parse, by recursive descent: the value at token i and the index after
\* it. An array is [k |-> "arr", items], an object [k |-> "obj", members], a
\* scalar its token.
RECURSIVE ParseValue(_, _), ParseItems(_, _, _), ParseMembers(_, _, _)
ParseValue(t, i) ==
    CASE t[i].k = "[" -> ParseItems(t, i + 1, <<>>)
      [] t[i].k = "{" -> ParseMembers(t, i + 1, <<>>)
      [] OTHER -> [v |-> t[i], next |-> i + 1]

ParseItems(t, i, acc) ==
    IF t[i].k = "]" THEN [v |-> [k |-> "arr", items |-> acc], next |-> i + 1]
    ELSE LET j == IF t[i].k = "," THEN i + 1 ELSE i
             e == ParseValue(t, j)
         IN  ParseItems(t, e.next, Append(acc, e.v))

ParseMembers(t, i, acc) ==
    IF t[i].k = "}" THEN [v |-> [k |-> "obj", members |-> acc], next |-> i + 1]
    ELSE LET j == IF t[i].k = "," THEN i + 1 ELSE i
             e == ParseValue(t, j + 2)
         IN  ParseMembers(t, e.next, Append(acc, [key |-> t[j].v, val |-> e.v]))

JSONParse(t) == ParseValue(t, 1).v

\* obj.name of a parsed object.
Member(obj, name) ==
    LET i == CHOOSE i \in 1..Len(obj.members) : obj.members[i].key = name
    IN  obj.members[i].val

\* A parsed scalar as a cell value, and a parsed numeral as an index.
CellOfScalar(tok) == tok.v
NumberOfScalar(tok) == CHOOSE n \in -1..Len(initialBoardLayout) : ToString(n) = tok.v

\* A parsed array of arrays of scalars as a board.
GridOfParsed(arr) ==
    [r \in 0..(Len(arr.items) - 1) |->
        [c \in 0..(Len(arr.items[r + 1].items) - 1) |->
            CellOfScalar(arr.items[r + 1].items[c + 1])]]

\* ------------------------------------------------------------ ConcreteMemento

\* new ConcreteMemento(state), lines 25-30: this.state is the object tree that
\* JSON.parse builds from JSON.stringify(state): a new state object with a new
\* board and, unless null, a new {r, c}. (this.date is not modelled.)
ConcreteMemento(m, s) ==
    LET parsed == JSONParse(JSONStringify(m, s))
        b == AllocBoard(m, GridOfParsed(Member(parsed, "board")))
        sp == Member(parsed, "selectedPeg")
        p == IF sp.k = "null" THEN [m |-> b.m, ref |-> NULL]
             ELSE AllocPeg(b.m, NumberOfScalar(Member(sp, "r")),
                           NumberOfScalar(Member(sp, "c")))
        st == AllocState(p.m, b.ref, p.ref)
    IN  [m |-> st.m, ret |-> [state |-> st.ref]]

\* getState(), line 32: the memento's own state object.
getState(memento) == memento.state

\* ------------------------------------------------------------ Originator

\* The constructor, lines 48-55, on a heap holding only `layout`.
Originator(layout) ==
    [boards |-> <<layout, CopyRows(layout)>>, pegs |-> <<>>,
     states |-> <<[board |-> 2, selectedPeg |-> NULL]>>,
     initialLayout |-> 1, state |-> 1]

save(m) == ConcreteMemento(m, m.state)

\* restore with the snapshot's rows taken as they are, not copied.
restore_sharedRows(m, memento) ==
    LET savedState == memento.state
        sp == m.states[savedState].selectedPeg
        p == IF sp # NULL THEN AllocPeg(m, m.pegs[sp].r, m.pegs[sp].c)
             ELSE [m |-> m, ref |-> NULL]
    IN  [p.m EXCEPT !.states[m.state].board = m.states[savedState].board,
                    !.states[m.state].selectedPeg = p.ref]

\* restore(memento), lines 65-71.
restore(m, memento) ==
    LET savedState == getState(memento)
        b == AllocBoard(m, CopyRows(m.boards[m.states[savedState].board]))
        sp == m.states[savedState].selectedPeg
        p == IF sp # NULL THEN AllocPeg(b.m, m.pegs[sp].r, m.pegs[sp].c)
             ELSE [m |-> b.m, ref |-> NULL]
    IN  [p.m EXCEPT !.states[m.state].board = b.ref,
                    !.states[m.state].selectedPeg = p.ref]

\* restartGame with the layout's rows taken as they are, not copied.
restartGame_sharedRows(m) ==
    [m EXCEPT !.states[m.state].board = m.initialLayout,
              !.states[m.state].selectedPeg = NULL]

\* restartGame(), lines 76-79.
restartGame(m) ==
    LET b == AllocBoard(m, CopyRows(m.boards[m.initialLayout]))
    IN  [b.m EXCEPT !.states[m.state].board = b.ref,
                    !.states[m.state].selectedPeg = NULL]

\* this.state.board[r][c] = v.
WriteCell(m, r, c, v) == [m EXCEPT !.boards[m.states[m.state].board][r][c] = v]

\* tryMove without the test of line 116: the midpoint is not looked at.
tryMove_noMidpointTest(m, fr, fc, tr, tc) ==
    LET dr == tr - fr
        dc == tc - fc
        Abs(x) == IF x < 0 THEN -x ELSE x
        isValidDistance == (Abs(dr) = 2 /\ dc = 0) \/ (Abs(dc) = 2 /\ dr = 0)
        mr == fr + dr \div 2
        mc == fc + dc \div 2
    IN  IF ~isValidDistance THEN [m |-> m, ret |-> FALSE]
        ELSE [m |-> [m EXCEPT !.boards[m.states[m.state].board] =
                        [@ EXCEPT ![fr][fc] = CELL_TYPES.EMPTY,
                                  ![mr][mc] = CELL_TYPES.EMPTY,
                                  ![tr][tc] = CELL_TYPES.PEG]],
              ret |-> TRUE]

\* tryMove without the assignment of line 120: the jumped peg stays.
tryMove_keepsMidpoint(m, fr, fc, tr, tc) ==
    LET dr == tr - fr
        dc == tc - fc
        Abs(x) == IF x < 0 THEN -x ELSE x
        isValidDistance == (Abs(dr) = 2 /\ dc = 0) \/ (Abs(dc) = 2 /\ dr = 0)
        mr == fr + dr \div 2
        mc == fc + dc \div 2
    IN  IF ~isValidDistance THEN [m |-> m, ret |-> FALSE]
        ELSE IF ReadCell(BoardOf(m, m.state), mr, mc) # CELL_TYPES.PEG
             THEN [m |-> m, ret |-> FALSE]
        ELSE [m |-> [m EXCEPT !.boards[m.states[m.state].board] =
                        [@ EXCEPT ![fr][fc] = CELL_TYPES.EMPTY,
                                  ![tr][tc] = CELL_TYPES.PEG]],
              ret |-> TRUE]

\* tryMove without the assignment of line 119: the origin keeps its peg.
tryMove_keepsOrigin(m, fr, fc, tr, tc) ==
    LET dr == tr - fr
        dc == tc - fc
        Abs(x) == IF x < 0 THEN -x ELSE x
        isValidDistance == (Abs(dr) = 2 /\ dc = 0) \/ (Abs(dc) = 2 /\ dr = 0)
        mr == fr + dr \div 2
        mc == fc + dc \div 2
    IN  IF ~isValidDistance THEN [m |-> m, ret |-> FALSE]
        ELSE IF ReadCell(BoardOf(m, m.state), mr, mc) # CELL_TYPES.PEG
             THEN [m |-> m, ret |-> FALSE]
        ELSE [m |-> [m EXCEPT !.boards[m.states[m.state].board] =
                        [@ EXCEPT ![mr][mc] = CELL_TYPES.EMPTY,
                                  ![tr][tc] = CELL_TYPES.PEG]],
              ret |-> TRUE]

\* tryMove(fr, fc, tr, tc), lines 104-124.
tryMove(m, fr, fc, tr, tc) ==
    LET dr == tr - fr
        dc == tc - fc
        Abs(x) == IF x < 0 THEN -x ELSE x
        isValidDistance == (Abs(dr) = 2 /\ dc = 0) \/ (Abs(dc) = 2 /\ dr = 0)
        mr == fr + dr \div 2
        mc == fc + dc \div 2
    IN  IF ~isValidDistance THEN [m |-> m, ret |-> FALSE]
        ELSE IF ReadCell(BoardOf(m, m.state), mr, mc) # CELL_TYPES.PEG
             THEN [m |-> m, ret |-> FALSE]
        ELSE [m |-> WriteCell(WriteCell(WriteCell(m, fr, fc, CELL_TYPES.EMPTY),
                                        mr, mc, CELL_TYPES.EMPTY),
                              tr, tc, CELL_TYPES.PEG),
              ret |-> TRUE]

\* selectCell with the test of line 84 as cell !== EMPTY: any cell that is not
\* empty is selected.
selectCell_notEmpty(m, r, c) ==
    LET cell == ReadCell(BoardOf(m, m.state), r, c)
        sel == SelOf(m, m.state)
    IN  IF cell = TYPE_ERROR THEN [m |-> m, ret |-> TYPE_ERROR]
        ELSE IF cell # CELL_TYPES.EMPTY THEN
            IF sel = <<r, c>>
            THEN [m |-> [m EXCEPT !.states[m.state].selectedPeg = NULL], ret |-> "SELECT"]
            ELSE LET p == AllocPeg(m, r, c)
                 IN  [m |-> [p.m EXCEPT !.states[m.state].selectedPeg = p.ref],
                      ret |-> "SELECT"]
        ELSE IF sel # <<>> THEN
            LET moveResult == tryMove(m, sel[1], sel[2], r, c)
            IN  IF moveResult.ret
                THEN [m |-> [moveResult.m EXCEPT !.states[m.state].selectedPeg = NULL],
                      ret |-> "MOVE_SUCCESS"]
                ELSE [m |-> moveResult.m, ret |-> "NO_ACTION"]
        ELSE [m |-> m, ret |-> "NO_ACTION"]

\* selectCell without the assignment of line 96: the selection stays after a
\* committed move.
selectCell_keepsSelection(m, r, c) ==
    LET cell == ReadCell(BoardOf(m, m.state), r, c)
        sel == SelOf(m, m.state)
    IN  IF cell = TYPE_ERROR THEN [m |-> m, ret |-> TYPE_ERROR]
        ELSE IF cell = CELL_TYPES.PEG THEN
            IF sel = <<r, c>>
            THEN [m |-> [m EXCEPT !.states[m.state].selectedPeg = NULL], ret |-> "SELECT"]
            ELSE LET p == AllocPeg(m, r, c)
                 IN  [m |-> [p.m EXCEPT !.states[m.state].selectedPeg = p.ref],
                      ret |-> "SELECT"]
        ELSE IF cell = CELL_TYPES.EMPTY /\ sel # <<>> THEN
            LET moveResult == tryMove(m, sel[1], sel[2], r, c)
            IN  IF moveResult.ret
                THEN [m |-> moveResult.m, ret |-> "MOVE_SUCCESS"]
                ELSE [m |-> moveResult.m, ret |-> "NO_ACTION"]
        ELSE [m |-> m, ret |-> "NO_ACTION"]

\* selectCell without the test of line 85: a PEG is selected whether or not it
\* already was.
selectCell_noToggle(m, r, c) ==
    LET cell == ReadCell(BoardOf(m, m.state), r, c)
        sel == SelOf(m, m.state)
    IN  IF cell = TYPE_ERROR THEN [m |-> m, ret |-> TYPE_ERROR]
        ELSE IF cell = CELL_TYPES.PEG THEN
            LET p == AllocPeg(m, r, c)
            IN  [m |-> [p.m EXCEPT !.states[m.state].selectedPeg = p.ref],
                 ret |-> "SELECT"]
        ELSE IF cell = CELL_TYPES.EMPTY /\ sel # <<>> THEN
            LET moveResult == tryMove(m, sel[1], sel[2], r, c)
            IN  IF moveResult.ret
                THEN [m |-> [moveResult.m EXCEPT !.states[m.state].selectedPeg = NULL],
                      ret |-> "MOVE_SUCCESS"]
                ELSE [m |-> moveResult.m, ret |-> "NO_ACTION"]
        ELSE [m |-> m, ret |-> "NO_ACTION"]

\* selectCell that gives the selection up when the move is refused.
selectCell_dropsOnFail(m, r, c) ==
    LET cell == ReadCell(BoardOf(m, m.state), r, c)
        sel == SelOf(m, m.state)
    IN  IF cell = TYPE_ERROR THEN [m |-> m, ret |-> TYPE_ERROR]
        ELSE IF cell = CELL_TYPES.PEG THEN
            IF sel = <<r, c>>
            THEN [m |-> [m EXCEPT !.states[m.state].selectedPeg = NULL], ret |-> "SELECT"]
            ELSE LET p == AllocPeg(m, r, c)
                 IN  [m |-> [p.m EXCEPT !.states[m.state].selectedPeg = p.ref],
                      ret |-> "SELECT"]
        ELSE IF cell = CELL_TYPES.EMPTY /\ sel # <<>> THEN
            LET moveResult == tryMove(m, sel[1], sel[2], r, c)
            IN  IF moveResult.ret
                THEN [m |-> [moveResult.m EXCEPT !.states[m.state].selectedPeg = NULL],
                      ret |-> "MOVE_SUCCESS"]
                ELSE [m |-> [moveResult.m EXCEPT !.states[m.state].selectedPeg = NULL],
                      ret |-> "NO_ACTION"]
        ELSE [m |-> m, ret |-> "NO_ACTION"]

\* selectCell(r, c), lines 81-102. Reading board[r][c] of a row the board does
\* not have throws (line 82), before anything is changed.
selectCell(m, r, c) ==
    LET cell == ReadCell(BoardOf(m, m.state), r, c)
        sel == SelOf(m, m.state)
    IN  IF cell = TYPE_ERROR THEN [m |-> m, ret |-> TYPE_ERROR]
        ELSE IF cell = CELL_TYPES.PEG THEN
            IF sel = <<r, c>>
            THEN [m |-> [m EXCEPT !.states[m.state].selectedPeg = NULL], ret |-> "SELECT"]
            ELSE LET p == AllocPeg(m, r, c)
                 IN  [m |-> [p.m EXCEPT !.states[m.state].selectedPeg = p.ref],
                      ret |-> "SELECT"]
        ELSE IF cell = CELL_TYPES.EMPTY /\ sel # <<>> THEN
            LET moveResult == tryMove(m, sel[1], sel[2], r, c)
            IN  IF moveResult.ret
                THEN [m |-> [moveResult.m EXCEPT !.states[m.state].selectedPeg = NULL],
                      ret |-> "MOVE_SUCCESS"]
                ELSE [m |-> moveResult.m, ret |-> "NO_ACTION"]
        ELSE [m |-> m, ret |-> "NO_ACTION"]

\* The sum of the first n elements of the sequence s.
RECURSIVE SumUpTo(_, _)
SumUpTo(s, n) == IF n = 0 THEN 0 ELSE SumUpTo(s, n - 1) + s[n]

\* The sum of the sequence s.
SumSeq(s) == SumUpTo(s, Len(s))

\* The cells of a board in scan order (row by row), as positions.
ScanOrder(grid) ==
    LET n == Cardinality(DOMAIN grid)
        w == Cardinality(DOMAIN grid[0])
    IN  [i \in 1..(n * w) |-> <<(i - 1) \div w, (i - 1) % w>>]

\* The scan of checkGameState, lines 127-147, over a board: pegs and
\* possibleMoves as the loops count them.
ScanBoard(board) ==
    LET order == ScanOrder(board)
        isPeg(p) == board[p[1]][p[2]] = CELL_TYPES.PEG
        jump(p, d) ==
            LET nr == p[1] + d.dx
                nc == p[2] + d.dy
                mr == p[1] + d.dx \div 2
                mc == p[2] + d.dy \div 2
            IN  /\ ReadCellOptional(board, nr, nc) = CELL_TYPES.EMPTY
                /\ ReadCellOptional(board, mr, mc) = CELL_TYPES.PEG
        movesAt(p) ==
            SumSeq([k \in 1..Len(DIRECTIONS) |-> IF jump(p, DIRECTIONS[k]) THEN 1 ELSE 0])
    IN  [pegs |-> SumSeq([i \in 1..Len(order) |-> IF isPeg(order[i]) THEN 1 ELSE 0]),
         possibleMoves |->
             SumSeq([i \in 1..Len(order) |-> IF isPeg(order[i]) THEN movesAt(order[i]) ELSE 0])]

\* checkGameState without the second operand of line 150: a board with no jump
\* left is not over.
checkGameState_winOnly(m) ==
    LET scan == ScanBoard(BoardOf(m, m.state))
    IN  [isGameOver |-> scan.pegs = 1,
         isWin |-> scan.pegs = 1,
         pegsRemaining |-> scan.pegs]

\* checkGameState with && for || at line 150.
checkGameState_and(m) ==
    LET scan == ScanBoard(BoardOf(m, m.state))
    IN  [isGameOver |-> scan.pegs = 1 /\ scan.possibleMoves = 0,
         isWin |-> scan.pegs = 1,
         pegsRemaining |-> scan.pegs]

\* checkGameState(), lines 126-154.
checkGameState(m) ==
    LET scan == ScanBoard(BoardOf(m, m.state))
    IN  [isGameOver |-> scan.pegs = 1 \/ scan.possibleMoves = 0,
         isWin |-> scan.pegs = 1,
         pegsRemaining |-> scan.pegs]

\* ------------------------------------------------------------ Caretaker

\* backup(), line 167.
backup(m) ==
    LET saved == save(m)
    IN  [saved.m EXCEPT !.mementos = Append(@, saved.ret)]

\* undo with shift() for pop(): the oldest snapshot, not the newest.
undo_oldest(m) ==
    IF Len(m.mementos) = 0 THEN m
    ELSE restore([m EXCEPT !.mementos = Tail(@)], m.mementos[1])

\* undo reading the last snapshot without pop(): the history keeps it.
undo_peek(m) ==
    IF Len(m.mementos) = 0 THEN m
    ELSE restore(m, m.mementos[Len(m.mementos)])

\* undo(), lines 169-173.
undo(m) ==
    IF Len(m.mementos) = 0 THEN m
    ELSE LET memento == m.mementos[Len(m.mementos)]
             popped == [m EXCEPT !.mementos = SubSeq(@, 1, Len(@) - 1)]
         IN  restore(popped, memento)

\* ------------------------------------------------------------ UI

\* String(n) for a natural number n, as its characters.
RECURSIVE StringOf(_)
StringOf(n) ==
    LET digit == <<"0", "1", "2", "3", "4", "5", "6", "7", "8", "9">>[(n % 10) + 1]
    IN  IF n < 10 THEN <<digit>> ELSE Append(StringOf(n \div 10), digit)

\* s.padStart(len, fill) for a one-character fill.
RECURSIVE padStart(_, _, _)
padStart(s, len, fill) == IF Len(s) >= len THEN s ELSE padStart(<<fill>> \o s, len, fill)

\* The text "00:00" of lines 205 and 228.
timerText == <<"0", "0", ":", "0", "0">>

\* stopTimer(), line 337: clearInterval.
stopTimer(m) == [m EXCEPT !.timer.timerInterval = FALSE]

\* startTimer(), lines 331-335: startTime is now, so no second has passed.
startTimer(m) == [m EXCEPT !.timer.timerInterval = TRUE, !.timer.elapsed = 0]

\* updateTimer with a call of caretaker.undo() added to the callback.
updateTimer_undoes(m, elapsed) ==
    LET mins == padStart(StringOf(elapsed \div 60), 2, "0")
        secs == padStart(StringOf(elapsed % 60), 2, "0")
    IN  [undo(m) EXCEPT !.timer.elapsed = elapsed, !.timer.text = mins \o <<":">> \o secs]

\* updateTimer(), lines 339-344, run when `elapsed` whole seconds have passed
\* since startTime.
updateTimer(m, elapsed) ==
    LET mins == padStart(StringOf(elapsed \div 60), 2, "0")
        secs == padStart(StringOf(elapsed % 60), 2, "0")
    IN  [m EXCEPT !.timer.elapsed = elapsed, !.timer.text = mins \o <<":">> \o secs]

\* checkGameStatus without the assignment of line 322: the game stays started.
checkGameStatus_staysStarted(m) ==
    LET status == checkGameState(m)
    IN  IF status.isGameOver THEN stopTimer(m) ELSE m

\* checkGameStatus(), lines 317-329 (the message is display).
checkGameStatus(m) ==
    LET status == checkGameState(m)
    IN  IF status.isGameOver THEN [stopTimer(m) EXCEPT !.gameStarted = FALSE] ELSE m

\* startGame(), lines 233-250.
startGame(m) ==
    startTimer([restartGame([m EXCEPT !.gameStarted = TRUE]) EXCEPT !.mementos = <<>>])

\* handleStartRestart(), lines 224-231.
handleStartRestart(m) ==
    IF m.gameStarted
    THEN startGame([stopTimer(m) EXCEPT !.timer.text = timerText])
    ELSE startGame(m)

\* resetUI(), lines 275-298; initialUIState.gameStarted is false (line 199).
resetUI(m) ==
    LET stopped == [stopTimer(m) EXCEPT !.gameStarted = FALSE, !.timer.text = timerText]
    IN  [restartGame(stopped) EXCEPT !.mementos = <<>>]

\* handleStop(), lines 268-270.
handleStop(m) == resetUI(m)

\* handleUndo(), lines 252-255.
handleUndo(m) == undo(m)

\* handleCellClick without the second operand of line 305: a click on an EMPTY
\* cell takes a snapshot whether or not a peg is selected.
handleCellClick_backsUpUnselected(m, r, c) ==
    IF ~m.gameStarted THEN [m |-> m, ret |-> "ignored"]
    ELSE LET cell == ReadCell(BoardOf(m, m.state), r, c)
             m1 == IF cell = CELL_TYPES.EMPTY THEN backup(m) ELSE m
             result == selectCell(m1, r, c)
         IN  IF result.ret = "MOVE_SUCCESS"
             THEN [m |-> checkGameStatus(result.m), ret |-> result.ret]
             ELSE result

\* handleCellClick without the test of line 301.
handleCellClick_notGuarded(m, r, c) ==
    LET cell == ReadCell(BoardOf(m, m.state), r, c)
        m1 == IF cell = CELL_TYPES.EMPTY /\ SelOf(m, m.state) # <<>>
              THEN backup(m) ELSE m
        result == selectCell(m1, r, c)
    IN  IF result.ret = "MOVE_SUCCESS"
        THEN [m |-> checkGameStatus(result.m), ret |-> result.ret]
        ELSE result

\* handleCellClick(r, c), lines 300-315: the machine after, and the type of the
\* result ("ignored" when the handler returns at line 301).
handleCellClick(m, r, c) ==
    IF ~m.gameStarted THEN [m |-> m, ret |-> "ignored"]
    ELSE LET cell == ReadCell(BoardOf(m, m.state), r, c)
             m1 == IF cell = CELL_TYPES.EMPTY /\ SelOf(m, m.state) # <<>>
                   THEN backup(m) ELSE m
             result == selectCell(m1, r, c)
         IN  IF result.ret = "MOVE_SUCCESS"
             THEN [m |-> checkGameStatus(result.m), ret |-> result.ret]
             ELSE result

\* ------------------------------------------------------------ reachable objects

\* s without its repeated elements, first occurrences kept in order.
RECURSIVE Dedupe(_)
Dedupe(s) ==
    IF Len(s) = 0 THEN <<>>
    ELSE LET front == Dedupe(SubSeq(s, 1, Len(s) - 1))
             x == s[Len(s)]
         IN  IF \E i \in 1..Len(front) : front[i] = x THEN front ELSE Append(front, x)

IndexIn(order, a) == IF a = NULL THEN NULL ELSE CHOOSE i \in 1..Len(order) : order[i] = a

\* The machine with the unreachable objects collected and the reachable ones
\* renumbered in the order the roots reach them: a reference has no value a
\* program can observe but its identity, so two heaps that differ by a
\* renumbering are one state.
Normalize(m) ==
    LET roots == <<m.state>>
                    \o [i \in 1..Len(m.mementos) |-> m.mementos[i].state]
                    \o (IF m.held.state # NULL THEN <<m.held.state>> ELSE <<>>)
                    \o (IF m.handle # NULL THEN <<m.handle>> ELSE <<>>)
        sOrd == Dedupe(roots)
        bOrd == Dedupe(<<m.initialLayout>> \o [i \in 1..Len(sOrd) |-> m.states[sOrd[i]].board])
        pOrd == Dedupe(SelectSeq([i \in 1..Len(sOrd) |-> m.states[sOrd[i]].selectedPeg],
                                 LAMBDA a : a # NULL))
    IN  [boards |-> [i \in 1..Len(bOrd) |-> m.boards[bOrd[i]]],
         pegs |-> [i \in 1..Len(pOrd) |-> m.pegs[pOrd[i]]],
         states |-> [i \in 1..Len(sOrd) |->
                        [board |-> IndexIn(bOrd, m.states[sOrd[i]].board),
                         selectedPeg |-> IndexIn(pOrd, m.states[sOrd[i]].selectedPeg)]],
         initialLayout |-> IndexIn(bOrd, m.initialLayout),
         state |-> IndexIn(sOrd, m.state),
         mementos |-> [i \in 1..Len(m.mementos) |->
                          [state |-> IndexIn(sOrd, m.mementos[i].state)]],
         gameStarted |-> m.gameStarted,
         held |-> [state |-> IndexIn(sOrd, m.held.state)],
         handle |-> IndexIn(sOrd, m.handle),
         timer |-> m.timer]

\* The next state is the machine m.
Commit(m) ==
    \E m0 \in {m} : \E n \in {Normalize(m0)} :
        /\ boards' = n.boards
        /\ pegs' = n.pegs
        /\ states' = n.states
        /\ initialLayout' = n.initialLayout
        /\ state' = n.state
        /\ mementos' = n.mementos
        /\ gameStarted' = n.gameStarted
        /\ held' = n.held
        /\ handle' = n.handle
        /\ timer' = n.timer

\* ------------------------------------------------------------ the game

\* The history explored holds at most MaxHist snapshots.
MaxHist == 2

NoMove == [valid |-> FALSE, board |-> <<>>, from |-> <<>>, to |-> <<>>]

\* The page once the script has run, lines 388-392.
InitMachine(layout) ==
    LET o == Originator(layout)
    IN  [boards |-> o.boards, pegs |-> o.pegs, states |-> o.states,
         initialLayout |-> o.initialLayout, state |-> o.state,
         mementos |-> <<>>, gameStarted |-> FALSE,
         held |-> [state |-> NULL], handle |-> NULL,
         timer |-> [timerInterval |-> FALSE, elapsed |-> 0, text |-> timerText]]

InitWith(layout) ==
    LET m == InitMachine(layout)
    IN  /\ boards = m.boards
        /\ pegs = m.pegs
        /\ states = m.states
        /\ initialLayout = m.initialLayout
        /\ state = m.state
        /\ mementos = m.mementos
        /\ gameStarted = m.gameStarted
        /\ held = m.held
        /\ handle = m.handle
        /\ timer = m.timer
        /\ calls = 0
        /\ last = [op |-> "new", args |-> <<>>, ret |-> "-", prev |-> "-"]
        /\ lastMove = NoMove

Init == InitWith(GridOf(initialBoardLayout))

\* The start button.
HandleStartRestart ==
    /\ Commit(handleStartRestart(Machine))
    /\ last' = [op |-> "start", args |-> <<Len(mementos)>>, ret |-> "-", prev |-> "-"]
    /\ lastMove' = NoMove
    /\ UNCHANGED calls

\* The stop button.
HandleStop ==
    /\ Commit(handleStop(Machine))
    /\ last' = [op |-> "stop", args |-> <<Len(mementos)>>, ret |-> "-", prev |-> "-"]
    /\ lastMove' = NoMove
    /\ UNCHANGED calls

\* The undo button, or Ctrl+Z. lastMove stays when the undo follows the move.
HandleUndo ==
    /\ Commit(handleUndo(Machine))
    /\ last' = [op |-> "undo", args |-> <<>>, ret |-> "-", prev |-> "-"]
    /\ lastMove' = IF last.ret = "MOVE_SUCCESS" THEN lastMove ELSE NoMove
    /\ UNCHANGED calls

\* The handler of a click on the cell (r, c) runs.
CellClicked(r, c) ==
    \E m \in {Machine} :
        \E done \in {handleCellClick(m, r, c)} :
        /\ Commit(done.m)
        /\ last' = [op |-> "click", args |-> <<>>, ret |-> done.ret, prev |-> "-"]
        /\ lastMove' = IF done.ret = "MOVE_SUCCESS"
                       THEN [valid |-> TRUE, board |-> BoardOf(m, state),
                             from |-> SelOf(m, state), to |-> <<r, c>>]
                       ELSE NoMove
        /\ UNCHANGED calls

\* A click on the cell (r, c), while the history has room for the snapshot the
\* click takes.
HandleCellClick(r, c) ==
    /\ ( /\ gameStarted
         /\ ReadCell(BoardOf(Machine, state), r, c) = CELL_TYPES.EMPTY
         /\ SelOf(Machine, state) # <<>> ) => Len(mementos) < MaxHist
    /\ CellClicked(r, c)

\* The cells the clicks explored fall on: the thirteen cells within two steps of
\* the centre, and two cells off the cross.
ClickCells ==
    {p \in Pos : (IF p[1] < 3 THEN 3 - p[1] ELSE p[1] - 3)
                    + (IF p[2] < 3 THEN 3 - p[2] ELSE p[2] - 3) <= 2}
        \cup {<<0, 0>>, <<1, 1>>}

Next ==
    \/ HandleStartRestart
    \/ HandleStop
    \/ HandleUndo
    \/ \E p \in ClickCells : HandleCellClick(p[1], p[2])

Spec == Init /\ [][Next]_vars

\* ------------------------------------------------------------ the game: properties

\* The live engine: the board and the selection of Originator.state.
LiveBoard == boards[states[state].board]
LiveSel ==
    IF states[state].selectedPeg = NULL THEN <<>>
    ELSE <<pegs[states[state].selectedPeg].r, pegs[states[state].selectedPeg].c>>

CountPegs(board) ==
    Cardinality({p \in Pos : board[p[1]][p[2]] = CELL_TYPES.PEG})

InvalidCells(board) == {p \in Pos : board[p[1]][p[2]] = CELL_TYPES.INVALID}

\* The cell between two cells two apart on one axis.
Midpoint(from, to) == <<(from[1] + to[1]) \div 2, (from[2] + to[2]) \div 2>>

\* C3: an undo issued right after a click that committed a move (MOVE_SUCCESS)
\* leaves the board and the selection as they were before that click.
C3_UndoInvertsMove ==
    (last.op = "undo" /\ lastMove.valid) =>
        /\ LiveBoard = lastMove.board
        /\ LiveSel = lastMove.from

C3_Witness == last.op = "undo" /\ lastMove.valid /\ Len(mementos) > 0

\* C4, as claimed: a click lengthens the history by one exactly when it commits
\* a move and leaves its length alone otherwise, and pegs remaining plus
\* history length is 32 in every state.
C4_HistoryGrowsOnlyOnCapture ==
    [][ /\ last'.op = "click" =>
            Len(mementos') = Len(mementos) + (IF last'.ret = "MOVE_SUCCESS" THEN 1 ELSE 0)
        /\ CountPegs(LiveBoard') + Len(mementos') = 32 ]_vars

\* C9: a start or a stop leaves the board equal to the initial layout, no
\* selection and an empty history, whatever preceded; the stored layout is
\* never altered; an undo right after a start or a stop changes nothing.
C9_ResetRestoresLayout ==
    [][ /\ last'.op \in {"start", "stop"} =>
            /\ LiveBoard' = GridOf(initialBoardLayout)
            /\ LiveSel' = <<>>
            /\ mementos' = <<>>
        /\ boards'[initialLayout'] = GridOf(initialBoardLayout)
        /\ (last.op \in {"start", "stop"} /\ last'.op = "undo") =>
            /\ LiveBoard' = LiveBoard
            /\ LiveSel' = LiveSel
            /\ mementos' = mementos
            /\ gameStarted' = gameStarted ]_vars

\* A start that discarded a full history, after a move had changed the board.
C9_Witness ==
    /\ last.op = "start"
    /\ last.args[1] = MaxHist
    /\ LiveBoard = GridOf(initialBoardLayout)

\* C10: the cells that hold OUT_OF_BOARD are those of the initial layout, the
\* selected cell is never one of them, and neither is the origin, the midpoint
\* or the destination of a committed move.
C10_OutOfBoardInert ==
    /\ InvalidCells(LiveBoard) = InvalidCells(GridOf(initialBoardLayout))
    /\ LiveSel # <<>> => LiveSel \notin InvalidCells(LiveBoard)
    /\ lastMove.valid =>
        {lastMove.from, Midpoint(lastMove.from, lastMove.to), lastMove.to}
            \cap InvalidCells(GridOf(initialBoardLayout)) = {}

C10_Witness == last.op = "click" /\ lastMove.valid /\ LiveSel = <<>>

\* C11: in every state the clicks, undos, starts and stops reach, the selection
\* is none or a position of the board whose cell holds a PEG.
C11_SelectionIsPeg ==
    LiveSel # <<>> =>
        /\ LiveSel \in Pos
        /\ LiveBoard[LiveSel[1]][LiveSel[2]] = CELL_TYPES.PEG

\* An undo of a committed move has put the selection back on the origin.
C11_Witness == last.op = "undo" /\ lastMove.valid /\ LiveSel = lastMove.from

\* ------------------------------------------------------------ one call on any board

\* The layouts explored: the initial layout and the cross with no peg, each
\* with the first MaxFree cells of FreePath holding any of the three values.
MaxFree == 3

FreePath == << <<3, 1>>, <<3, 2>>, <<3, 3>>, <<2, 3>>, <<1, 3>>, <<1, 2>>, <<1, 1>> >>

FreeCells == {FreePath[i] : i \in 1..(IF MaxFree < Len(FreePath) THEN MaxFree ELSE Len(FreePath))}

CellValues == {CELL_TYPES.INVALID, CELL_TYPES.EMPTY, CELL_TYPES.PEG}

ClearedLayout ==
    [r \in Rows |-> [c \in Cols |->
        IF GridOf(initialBoardLayout)[r][c] = CELL_TYPES.PEG THEN CELL_TYPES.EMPTY
        ELSE GridOf(initialBoardLayout)[r][c]]]

LayoutFamily ==
    {[r \in Rows |-> [c \in Cols |-> IF <<r, c>> \in FreeCells THEN f[<<r, c>>] ELSE base[r][c]]] :
        base \in {GridOf(initialBoardLayout), ClearedLayout}, f \in [FreeCells -> CellValues]}

\* new Originator(layout), for a layout of the family.
InitAnyLayout == \E layout \in LayoutFamily : InitWith(layout)

\* originator.tryMove(fr, fc, tr, tc) on the engine as constructed.
TryMoveCall(fr, fc, tr, tc) ==
    /\ \E done \in {tryMove(Machine, fr, fc, tr, tc)} :
        /\ Commit(done.m)
        /\ last' = [op |-> "tryMove", args |-> <<fr, fc, tr, tc>>, ret |-> done.ret,
                    prev |-> last.op]
    /\ calls' = calls + 1
    /\ UNCHANGED lastMove

\* originator.checkGameState() on the engine as constructed.
CheckGameStateCall ==
    /\ last.op = "new"
    /\ Commit(Machine)
    /\ last' = [op |-> "checkGameState", args |-> <<>>, ret |-> checkGameState(Machine),
                prev |-> last.op]
    /\ calls' = calls + 1
    /\ UNCHANGED lastMove

\* Any in-bounds arguments.
TryMoveAny ==
    /\ last.op = "new"
    /\ \E from \in Pos, to \in Pos : TryMoveCall(from[1], from[2], to[1], to[2])

NextMove ==
    \/ TryMoveAny
    \/ CheckGameStateCall

SpecMove == InitAnyLayout /\ [][NextMove]_vars

\* The cells of a call's arguments (fr, fc, tr, tc).
ArgFrom(a) == <<a[1], a[2]>>
ArgTo(a) == <<a[3], a[4]>>

Dist(x, y) == IF x < y THEN y - x ELSE x - y

\* Two cells exactly two apart along one axis and level on the other.
TwoApartOnOneAxis(from, to) == {Dist(from[1], to[1]), Dist(from[2], to[2])} = {0, 2}

\* C1: tryMove returns true exactly when the two cells are two apart on one
\* axis and the cell between them holds a PEG; when it returns false no cell
\* of the board has changed.
C1_TryMoveAcceptance ==
    [][ last'.op = "tryMove" =>
          LET from == ArgFrom(last'.args)
              to == ArgTo(last'.args)
              mid == Midpoint(from, to)
              legal == /\ TwoApartOnOneAxis(from, to)
                       /\ LiveBoard[mid[1]][mid[2]] = CELL_TYPES.PEG
          IN  /\ last'.ret <=> legal
              /\ ~last'.ret => LiveBoard' = LiveBoard ]_vars

\* An accepted call, and one whose origin held no peg.
C1_Witness ==
    /\ last.op = "tryMove"
    /\ last.ret
    /\ boards[initialLayout][last.args[1]][last.args[2]] # CELL_TYPES.PEG

\* C2, as claimed: whenever tryMove returns true the board holds one PEG less.
C2_PegCountDropsByOne ==
    [][ (last'.op = "tryMove" /\ last'.ret) =>
            CountPegs(LiveBoard') = CountPegs(LiveBoard) - 1 ]_vars

\* C2, amended: whenever tryMove returns true for an origin that held a PEG and
\* a destination that was EMPTY, the board holds one PEG less.
C2_PegCountDropsByOne_PegToEmpty ==
    [][ ( /\ last'.op = "tryMove"
          /\ last'.ret
          /\ LiveBoard[last'.args[1]][last'.args[2]] = CELL_TYPES.PEG
          /\ LiveBoard[last'.args[3]][last'.args[4]] = CELL_TYPES.EMPTY ) =>
            CountPegs(LiveBoard') = CountPegs(LiveBoard) - 1 ]_vars

\* An accepted call from a PEG to an EMPTY cell (the layout object keeps the
\* board the call started from).
C2_Witness ==
    /\ last.op = "tryMove"
    /\ last.ret
    /\ boards[initialLayout][last.args[1]][last.args[2]] = CELL_TYPES.PEG
    /\ boards[initialLayout][last.args[3]][last.args[4]] = CELL_TYPES.EMPTY
    /\ CountPegs(LiveBoard) = CountPegs(boards[initialLayout]) - 1

\* The terminal state of a board, stated from the rules: a jump is a PEG with
\* a PEG next to it and an EMPTY cell of the board right behind that one.
Steps == {<<0, 1>>, <<0, -1>>, <<1, 0>>, <<-1, 0>>}

HasJump(board) ==
    \E p \in Pos, d \in Steps :
        LET over == <<p[1] + d[1], p[2] + d[2]>>
            land == <<p[1] + 2 * d[1], p[2] + 2 * d[2]>>
        IN  /\ board[p[1]][p[2]] = CELL_TYPES.PEG
            /\ land \in Pos
            /\ board[over[1]][over[2]] = CELL_TYPES.PEG
            /\ board[land[1]][land[2]] = CELL_TYPES.EMPTY

TerminalState(board) ==
    [isGameOver |-> CountPegs(board) = 1 \/ ~HasJump(board),
     isWin |-> CountPegs(board) = 1,
     pegsRemaining |-> CountPegs(board)]

\* C5: checkGameState returns the terminal state of the board (32 pegs and not
\* over on the initial layout) and changes neither board nor selection.
C5_CheckGameStateAgrees ==
    [][ last'.op = "checkGameState" =>
          /\ last'.ret = TerminalState(LiveBoard)
          /\ LiveBoard = GridOf(initialBoardLayout) =>
                (last'.ret.pegsRemaining = 32 /\ ~last'.ret.isGameOver)
          /\ (CountPegs(LiveBoard) = 2 /\ ~HasJump(LiveBoard)) =>
                (last'.ret.isGameOver /\ ~last'.ret.isWin)
          /\ LiveBoard' = LiveBoard
          /\ LiveSel' = LiveSel ]_vars

\* A board of two pegs with no jump, reported over and not won.
C5_Witness ==
    /\ last.op = "checkGameState"
    /\ last.ret.pegsRemaining = 2
    /\ last.ret.isGameOver
    /\ ~last.ret.isWin

\* ------------------------------------------------------------ direct calls in sequence

\* At most MaxCalls direct calls are made on the objects the script constructs.
MaxCalls == 5

\* The cells selectCell is called with: three of the middle row, one off the
\* cross, and one beyond each edge of the array.
ApiCells == {<<3, 1>>, <<3, 2>>, <<3, 3>>, <<1, 1>>,
             <<-1, 3>>, <<7, 3>>, <<3, -1>>, <<3, 7>>}

\* The writes a caller makes through the reference getState() gave it.
HandleWrites == {[r |-> 3, c |-> 3, v |-> CELL_TYPES.PEG],
                 [r |-> 3, c |-> 1, v |-> CELL_TYPES.EMPTY]}

Called(op, args, ret) ==
    /\ last' = [op |-> op, args |-> args, ret |-> ret, prev |-> last.op]
    /\ calls' = calls + 1
    /\ UNCHANGED lastMove

\* originator.selectCell(r, c).
SelectCellCall(r, c) ==
    /\ calls < MaxCalls
    /\ \E done \in {selectCell(Machine, r, c)} :
        /\ Commit(done.m)
        /\ Called("selectCell", <<r, c>>, done.ret)

\* held = originator.save().
SaveCall ==
    /\ calls < MaxCalls
    /\ \E saved \in {save(Machine)} : Commit([saved.m EXCEPT !.held = saved.ret])
    /\ Called("save", <<>>, "-")

\* handle = held.getState().
GetStateCall ==
    /\ calls < MaxCalls
    /\ held.state # NULL
    /\ Commit([Machine EXCEPT !.handle = getState(held)])
    /\ Called("getState", <<>>, "-")

\* handle.board[w.r][w.c] = w.v
HandleWriteCall(w) ==
    /\ calls < MaxCalls
    /\ handle # NULL
    /\ Commit([Machine EXCEPT !.boards[states[handle].board][w.r][w.c] = w.v])
    /\ Called("write", <<w.r, w.c>>, "-")

\* originator.restore(held).
RestoreCall ==
    /\ calls < MaxCalls
    /\ held.state # NULL
    /\ Commit(restore(Machine, held))
    /\ Called("restore", <<>>, "-")

\* originator.restartGame().
RestartCall ==
    /\ calls < MaxCalls
    /\ Commit(restartGame(Machine))
    /\ Called("restartGame", <<>>, "-")

\* caretaker.backup().
BackupCall ==
    /\ calls < MaxCalls
    /\ Commit(backup(Machine))
    /\ Called("backup", <<>>, "-")

\* caretaker.undo().
UndoCall ==
    /\ calls < MaxCalls
    /\ Commit(undo(Machine))
    /\ Called("undo", <<>>, "-")

NextApi ==
    \/ \E p \in ApiCells : SelectCellCall(p[1], p[2])
    \/ SaveCall
    \/ GetStateCall
    \/ \E w \in HandleWrites : HandleWriteCall(w)
    \/ RestoreCall
    \/ RestartCall
    \/ BackupCall
    \/ UndoCall

SpecApi == Init /\ [][NextApi]_vars

\* The board and the selection a memento holds.
Snapshot(memento) ==
    [board |-> boards[states[memento.state].board],
     selectedPeg |->
        IF states[memento.state].selectedPeg = NULL THEN <<>>
        ELSE <<pegs[states[memento.state].selectedPeg].r,
               pegs[states[memento.state].selectedPeg].c>>]

SnapshotAt(i) == Snapshot(mementos[i])
HeldSnapshot == Snapshot(held)

\* C6: no call on the originator or the caretaker (selectCell and the moves it
\* makes, backup, undo, restore, restartGame, save) changes the board or the
\* selection stored in a memento that is in the history before and after the
\* call, or in the memento the caller holds.
C6_SnapshotIsolation ==
    [][ last'.op # "write" =>
          /\ \A i \in 1..Len(mementos) :
                i <= Len(mementos') => SnapshotAt(i)' = SnapshotAt(i)
          /\ (held.state # NULL /\ last'.op # "save") => HeldSnapshot' = HeldSnapshot ]_vars

\* A move committed right after restore(held), with a snapshot in the history.
C6_Witness ==
    /\ last.op = "selectCell"
    /\ last.ret = "MOVE_SUCCESS"
    /\ last.prev = "restore"
    /\ held.state # NULL
    /\ HeldSnapshot.board # LiveBoard

\* C7, as claimed: a write a caller makes through the value getState() returned
\* leaves the board and the selection the memento holds as captured.
C7_GetStateReturnsCopy ==
    [][ (last'.op = "write" /\ held.state = handle) => HeldSnapshot' = HeldSnapshot ]_vars

\* C8, as claimed: selectCell with a row or a column outside the array returns
\* NO_ACTION, throws nothing, and changes neither board nor selection.
C8_OutOfBoundsNoAction ==
    [][ (last'.op = "selectCell" /\ <<last'.args[1], last'.args[2]>> \notin Pos) =>
          /\ last'.ret = "NO_ACTION"
          /\ LiveBoard' = LiveBoard
          /\ LiveSel' = LiveSel ]_vars

\* C12, as claimed: two consecutive calls of selectCell on one PEG position,
\* from any state, both return SELECT, change no cell, and end with no
\* selection.
C12_SelectTwiceClears ==
    [][ ( /\ last.op = "selectCell" /\ last.ret = "SELECT"
          /\ last'.op = "selectCell" /\ last'.args = last.args ) =>
            /\ last'.ret = "SELECT"
            /\ LiveBoard' = LiveBoard
            /\ LiveSel' = <<>> ]_vars

\* C12, amended: selectCell on a PEG position returns SELECT and changes no
\* cell; it clears the selection when that position was the selected one and
\* selects the position otherwise (whether another one was selected or none).
\* So of two consecutive calls on one PEG position, the second ends with no
\* selection when the first one selected the position, that is, when the
\* position was not the selected one before the two calls.
C12_SelectToggles ==
    [][ /\ ( /\ last'.op = "selectCell"
             /\ <<last'.args[1], last'.args[2]>> \in Pos
             /\ LiveBoard[last'.args[1]][last'.args[2]] = CELL_TYPES.PEG ) =>
               /\ last'.ret = "SELECT"
               /\ LiveBoard' = LiveBoard
               /\ LiveSel' = IF LiveSel = <<last'.args[1], last'.args[2]>>
                             THEN <<>> ELSE <<last'.args[1], last'.args[2]>>
        /\ ( /\ last.op = "selectCell" /\ last.ret = "SELECT"
             /\ last'.op = "selectCell" /\ last'.args = last.args
             /\ LiveSel = <<last.args[1], last.args[2]>> ) =>
               /\ last'.ret = "SELECT"
               /\ LiveSel' = <<>> ]_vars

\* The second of two calls returned SELECT and left no selection.
C12_Witness ==
    /\ last.op = "selectCell"
    /\ last.prev = "selectCell"
    /\ last.ret = "SELECT"
    /\ LiveSel = <<>>

\* C13: caretaker.undo() on an empty history changes neither board nor
\* selection nor history and throws nothing; on a history that holds snapshots
\* it removes the last one and only that one: the history is one shorter and
\* the snapshots left are those that were there, in their order, with their
\* boards and selections.
C13_UndoPopsLast ==
    [][ last'.op = "undo" =>
          /\ last'.ret # TYPE_ERROR
          /\ Len(mementos) = 0 =>
                /\ LiveBoard' = LiveBoard
                /\ LiveSel' = LiveSel
                /\ mementos' = <<>>
          /\ Len(mementos) > 0 =>
                /\ Len(mementos') = Len(mementos) - 1
                /\ \A i \in 1..Len(mementos') : SnapshotAt(i)' = SnapshotAt(i)
                /\ LiveBoard' = SnapshotAt(Len(mementos)).board
                /\ LiveSel' = SnapshotAt(Len(mementos)).selectedPeg ]_vars

\* An undo that left two snapshots of different content in the history.
C13_Witness ==
    /\ last.op = "undo"
    /\ Len(mementos) = 2
    /\ SnapshotAt(1) # SnapshotAt(2)

\* C15: selectCell on a position of the board returns SELECT exactly when the
\* cell holds a PEG, MOVE_SUCCESS exactly when the cell is EMPTY, a position is
\* selected and the jump from it to the cell is legal (two apart on one axis,
\* over a PEG), and NO_ACTION in every other case; a call that returns
\* NO_ACTION leaves the board and the selection as they were.
C15_GestureClassification ==
    [][ (last'.op = "selectCell" /\ <<last'.args[1], last'.args[2]>> \in Pos) =>
          LET to == <<last'.args[1], last'.args[2]>>
              cell == LiveBoard[to[1]][to[2]]
              legal == IF LiveSel = <<>> THEN FALSE
                       ELSE /\ TwoApartOnOneAxis(LiveSel, to)
                            /\ LiveBoard[Midpoint(LiveSel, to)[1]][Midpoint(LiveSel, to)[2]]
                                  = CELL_TYPES.PEG
              moves == cell = CELL_TYPES.EMPTY /\ LiveSel # <<>> /\ legal
          IN  /\ last'.ret \in {"SELECT", "MOVE_SUCCESS", "NO_ACTION"}
              /\ last'.ret = "SELECT" <=> cell = CELL_TYPES.PEG
              /\ last'.ret = "MOVE_SUCCESS" <=> moves
              /\ last'.ret = "NO_ACTION" <=> (cell # CELL_TYPES.PEG /\ ~moves)
              /\ last'.ret = "NO_ACTION" => (LiveBoard' = LiveBoard /\ LiveSel' = LiveSel) ]_vars

\* A refused move: NO_ACTION on an EMPTY cell, the selection kept.
C15_Witness ==
    /\ last.op = "selectCell"
    /\ last.ret = "NO_ACTION"
    /\ LiveSel # <<>>
    /\ <<last.args[1], last.args[2]>> \in Pos
    /\ LiveBoard[last.args[1]][last.args[2]] = CELL_TYPES.EMPTY

\* C20: every snapshot of the history holds a selection, on a cell that holds
\* a PEG in the snapshot's own board; the numbers of pegs of the stored boards
\* do not increase from the oldest snapshot to the newest, and the live board
\* holds no more pegs than the newest.
C20_HistoryWellFormed ==
    /\ \A i \in 1..Len(mementos) :
          /\ SnapshotAt(i).selectedPeg # <<>>
          /\ SnapshotAt(i).selectedPeg \in Pos
          /\ SnapshotAt(i).board[SnapshotAt(i).selectedPeg[1]][SnapshotAt(i).selectedPeg[2]]
                = CELL_TYPES.PEG
    /\ \A i \in 1..Len(mementos) : \A j \in i..Len(mementos) :
          CountPegs(SnapshotAt(i).board) >= CountPegs(SnapshotAt(j).board)
    /\ Len(mementos) > 0 =>
          CountPegs(LiveBoard) <= CountPegs(SnapshotAt(Len(mementos)).board)

\* Two moves committed: two snapshots and the live board, each with a peg less
\* than the one before.
C20_Witness ==
    /\ Len(mementos) = 2
    /\ CountPegs(SnapshotAt(1).board) > CountPegs(SnapshotAt(2).board)
    /\ CountPegs(SnapshotAt(2).board) > CountPegs(LiveBoard)

\* ------------------------------------------------------------ the game with its timer

\* The timer callback is followed for at most MaxSeconds seconds after a start.
MaxSeconds == 2

\* The cells clicked while the timer runs: the middle row of the cross.
TimerCells == {<<3, c>> : c \in 1..5}

\* The callback of setInterval, line 334, each time a second or two later than
\* the time before (a late callback skips a second).
UpdateTimer ==
    /\ timer.timerInterval
    /\ \E d \in 1..2 :
        /\ timer.elapsed + d <= MaxSeconds
        /\ Commit(updateTimer(Machine, timer.elapsed + d))
        /\ last' = [op |-> "tick", args |-> <<d>>, ret |-> "-", prev |-> "-"]
    /\ UNCHANGED <<calls, lastMove>>

NextTimer ==
    \/ HandleStartRestart
    \/ HandleStop
    \/ HandleUndo
    \/ \E p \in TimerCells : HandleCellClick(p[1], p[2])
    \/ UpdateTimer

SpecTimer == Init /\ [][NextTimer]_vars

\* The engine state and the history of a machine, and whether it is started.
EngineAndHistory(m) ==
    [board |-> BoardOf(m, m.state),
     selectedPeg |-> SelOf(m, m.state),
     history |-> [i \in 1..Len(m.mementos) |->
                    [board |-> BoardOf(m, m.mementos[i].state),
                     selectedPeg |-> SelOf(m, m.mementos[i].state)]],
     gameStarted |-> m.gameStarted]

\* The machine with the timer as it is before the first start.
TimerForgotten(m) == [m EXCEPT !.timer = InitMachine(GridOf(initialBoardLayout)).timer]

\* C14: a run of the timer callback leaves the board, the selection, the
\* history and the objects that hold them exactly as they were; and what a
\* gesture (start, stop, undo, click) does to the board, the selection and the
\* history is what it does when no callback has ever run, so the callbacks
\* interleaved in a sequence of gestures change nothing of its outcome.
C14_TimerLeavesGame ==
    [][ /\ last'.op = "tick" =>
            /\ <<boards, pegs, states, initialLayout, state, mementos, gameStarted>>'
                 = <<boards, pegs, states, initialLayout, state, mementos, gameStarted>>
            /\ EngineAndHistory(Machine)' = EngineAndHistory(Machine)
        /\ last'.op = "start" =>
            EngineAndHistory(Machine)' = EngineAndHistory(handleStartRestart(TimerForgotten(Machine)))
        /\ last'.op = "stop" =>
            EngineAndHistory(Machine)' = EngineAndHistory(handleStop(TimerForgotten(Machine)))
        /\ last'.op = "undo" =>
            EngineAndHistory(Machine)' = EngineAndHistory(handleUndo(TimerForgotten(Machine)))
        /\ last'.op = "click" =>
            \E p \in TimerCells :
                EngineAndHistory(Machine)' =
                    EngineAndHistory(handleCellClick(TimerForgotten(Machine), p[1], p[2]).m) ]_vars

\* The callback has run twice, between a click that selected a peg and the
\* present, with a snapshot in the history.
C14_Witness ==
    /\ last.op = "tick"
    /\ timer.elapsed = MaxSeconds
    /\ timer.text = <<"0", "0", ":", "0", "2">>
    /\ Len(mementos) > 0
    /\ LiveSel # <<>>

\* ------------------------------------------------------------ the game: committed moves

\* C16: when a click commits a move (MOVE_SUCCESS) from the selected cell o to
\* the clicked cell d over the midpoint m, then before the click o held a PEG,
\* d was EMPTY and m held a PEG; after it o and m are EMPTY, d holds a PEG,
\* nothing is selected, and every other cell has the value it had.
C16_MoveEffect ==
    [][ (last'.op = "click" /\ last'.ret = "MOVE_SUCCESS") =>
          LET o == LiveSel
              d == lastMove'.to
              mid == Midpoint(o, d)
          IN  /\ o # <<>>
              /\ TwoApartOnOneAxis(o, d)
              /\ LiveBoard[o[1]][o[2]] = CELL_TYPES.PEG
              /\ LiveBoard[d[1]][d[2]] = CELL_TYPES.EMPTY
              /\ LiveBoard[mid[1]][mid[2]] = CELL_TYPES.PEG
              /\ LiveBoard'[o[1]][o[2]] = CELL_TYPES.EMPTY
              /\ LiveBoard'[mid[1]][mid[2]] = CELL_TYPES.EMPTY
              /\ LiveBoard'[d[1]][d[2]] = CELL_TYPES.PEG
              /\ LiveSel' = <<>>
              /\ \A q \in Pos \ {o, mid, d} : LiveBoard'[q[1]][q[2]] = LiveBoard[q[1]][q[2]] ]_vars

\* Select (3,1) then (3,3) on the initial layout: (3,1) and (3,2) are empty and
\* (3,3) holds the peg.
C16_Witness ==
    /\ last.op = "click"
    /\ last.ret = "MOVE_SUCCESS"
    /\ lastMove.board = GridOf(initialBoardLayout)
    /\ lastMove.from = <<3, 1>>
    /\ lastMove.to = <<3, 3>>
    /\ LiveBoard[3][1] = CELL_TYPES.EMPTY
    /\ LiveBoard[3][2] = CELL_TYPES.EMPTY
    /\ LiveBoard[3][3] = CELL_TYPES.PEG

\* ------------------------------------------------------------ the game played to its end

\* The cells of the shortest game that ends with no jump left: (1,3) to (3,3),
\* (4,3) to (2,3), (3,1) to (3,3), (3,4) to (3,2), (3,6) to (3,4), (6,3) to (4,3).
PlayCells ==
    {<<1, 3>>, <<2, 3>>, <<3, 1>>, <<3, 2>>, <<3, 3>>, <<3, 4>>, <<3, 6>>, <<4, 3>>, <<6, 3>>}

\* The jump from one cell to another is legal on a board.
LegalJump(board, from, to) ==
    /\ TwoApartOnOneAxis(from, to)
    /\ board[from[1]][from[2]] = CELL_TYPES.PEG
    /\ board[Midpoint(from, to)[1]][Midpoint(from, to)[2]] = CELL_TYPES.PEG
    /\ board[to[1]][to[2]] = CELL_TYPES.EMPTY

\* A click of a player who, with a peg selected, clicks an empty cell only to
\* jump to it.
PlayClick(r, c) ==
    /\ ( /\ gameStarted
         /\ LiveBoard[r][c] = CELL_TYPES.EMPTY
         /\ LiveSel # <<>> ) => LegalJump(LiveBoard, LiveSel, <<r, c>>)
    /\ CellClicked(r, c)

NextPlay ==
    \/ HandleStartRestart
    \/ HandleStop
    \/ HandleUndo
    \/ \E p \in PlayCells : PlayClick(p[1], p[2])

SpecPlay == Init /\ [][NextPlay]_vars

\* C17: whenever the game is started the board is not terminal: it holds more
\* than one peg and a jump is left.
C17_StartedNotTerminal ==
    gameStarted => (CountPegs(LiveBoard) > 1 /\ HasJump(LiveBoard))

\* The move that left no jump has marked the game not started.
C17_Witness ==
    /\ last.op = "click"
    /\ last.ret = "MOVE_SUCCESS"
    /\ ~HasJump(LiveBoard)
    /\ ~gameStarted

\* C18: while the game is not started a click changes neither the board nor
\* the selection nor the history, and leaves the game not started; only a start
\* makes the game started; an undo while the game is over puts the board of
\* the last snapshot back and leaves the game not started.
C18_ClicksDeadUntilStart ==
    [][ /\ (last'.op = "click" /\ ~gameStarted) =>
            /\ last'.ret = "ignored"
            /\ LiveBoard' = LiveBoard
            /\ LiveSel' = LiveSel
            /\ Len(mementos') = Len(mementos)
            /\ \A i \in 1..Len(mementos) : SnapshotAt(i)' = SnapshotAt(i)
            /\ ~gameStarted'
        /\ (~gameStarted /\ gameStarted') => last'.op = "start"
        /\ (last'.op = "undo" /\ ~gameStarted) =>
            /\ ~gameStarted'
            /\ Len(mementos) > 0 =>
                LiveBoard' = SnapshotAt(Len(mementos)).board ]_vars

\* A click ignored after the game was over and an undo had put a board with a
\* jump back.
C18_Witness ==
    /\ last.op = "click"
    /\ last.ret = "ignored"
    /\ ~gameStarted
    /\ Len(mementos) > 0
    /\ HasJump(LiveBoard)

\* ------------------------------------------------------------ a player who keeps jumping

\* The player chooses freely among the legal jumps for the first MaxOpening
\* moves of the game, and takes the first legal jump of the board afterwards.
MaxOpening == 2

\* The jumps the rules allow on a board, in the order of a scan of the board
\* (row by row, the four directions at each cell).
JumpsOf(board) ==
    LET order == ScanOrder(board)
        n == Len(DIRECTIONS)
        candidate(k) ==
            LET p == order[((k - 1) \div n) + 1]
                d == DIRECTIONS[((k - 1) % n) + 1]
            IN  [from |-> p, to |-> <<p[1] + d.dx, p[2] + d.dy>>]
    IN  SelectSeq([k \in 1..(Len(order) * n) |-> candidate(k)],
                  LAMBDA j : j.to \in Pos /\ LegalJump(board, j.from, j.to))

\* The jumps the player considers in the current state.
PlayerJumps ==
    LET jumps == JumpsOf(LiveBoard)
    IN  IF Len(mementos) < MaxOpening THEN {jumps[k] : k \in 1..Len(jumps)}
        ELSE {jumps[k] : k \in 1..(IF Len(jumps) > 0 THEN 1 ELSE 0)}

\* The cells the player clicks: the peg of a jump when nothing is selected, the
\* landing cell of a jump of the selected peg otherwise.
PlayerCells ==
    IF LiveSel = <<>> THEN {j.from : j \in PlayerJumps}
    ELSE {j.to : j \in {k \in PlayerJumps : k.from = LiveSel}}

\* A click of the player.
PlayOn(r, c) ==
    /\ gameStarted
    /\ <<r, c>> \in PlayerCells
    /\ CellClicked(r, c)

\* The start of the one game played.
FirstStart ==
    /\ last.op = "new"
    /\ HandleStartRestart

NextPlayOn ==
    \/ FirstStart
    \/ \E p \in Pos : PlayOn(p[1], p[2])

\* A click of the player is possible.
PlayerCanClick == gameStarted /\ PlayerCells # {}

\* The player does not stop while a click of theirs is possible (the claim's
\* "keeps committing a legal move whenever one exists"): weak fairness of the
\* player's clicks, with PlayerCanClick for their enabledness.
PlayerKeepsOn ==
    \/ []<>(~PlayerCanClick)
    \/ []<><<\E p \in Pos : PlayOn(p[1], p[2])>>_vars

SpecPlayOn == Init /\ [][NextPlayOn]_vars /\ WF_vars(FirstStart) /\ PlayerKeepsOn

\* C19: in a game played with no undo and no second start, no click raises the
\* number of pegs and each committed move lowers it by one; the board keeps at
\* least one peg, so the moves committed since the start (one snapshot each)
\* are at most 31; and the player who keeps jumping reaches a state where
\* checkGameState reports the game over and the game is not started.
C19_PlayTerminates ==
    /\ [][ last'.op = "click" =>
             /\ CountPegs(LiveBoard') <= CountPegs(LiveBoard)
             /\ last'.ret = "MOVE_SUCCESS" =>
                   CountPegs(LiveBoard') = CountPegs(LiveBoard) - 1 ]_vars
    /\ [](/\ CountPegs(LiveBoard) >= 1
          /\ Len(mementos) = 32 - CountPegs(LiveBoard)
          /\ Len(mementos) <= 31)
    /\ <>(checkGameState(Machine).isGameOver /\ ~gameStarted)

\* The game is over after twenty moves or more, pegs left on a board with no
\* jump.
C19_Witness ==
    /\ last.op = "click"
    /\ last.ret = "MOVE_SUCCESS"
    /\ ~gameStarted
    /\ ~HasJump(LiveBoard)
    /\ Len(mementos) >= 20
    /\ CountPegs(LiveBoard) = 32 - Len(mementos)

====
